---- MODULE Spec2Model ----
(***************************************************************************)
(* Model of the NFL odds tracker: odds_pull.py stores a snapshot of priced *)
(* outcomes, app.py (compute_edges) and edges_scan.py (main) turn the      *)
(* latest snapshot into no-vig fair probabilities, edges and capped        *)
(* fractional-Kelly stakes.                                                *)
(*                                                                         *)
(* Python floats are modelled as exact rationals [n, d] in lowest terms    *)
(* with d > 0; round(x, k) is round-half-even on the exact value.  None    *)
(* (and pandas NaN) is the record None; a raised exception is the record   *)
(* Raised(name).                                                           *)
(***************************************************************************)
EXTENDS Integers, Sequences, FiniteSets, TLC

VARIABLES
    price,      \* argument of american_to_prob / american_to_decimal
    conv,       \* what the conversions returned for price
    kellyArg,   \* arguments (p, dec) of kelly_fraction
    kellyRet,   \* what the two copies of kelly_fraction returned
    snapshot,   \* rows of the latest snapshot in odds_snapshots
    appOut,     \* outcome of app.py compute_edges on the snapshot
    scanOut,    \* outcome of the edges_scan.py main loop on the snapshot
    requests_used,  \* api_usage.requests_used of the current month
    pullOut,    \* how the last odds_pull.py run ended
    latestTs,   \* ts_utc of the newest odds_snapshots row (0: no row)
    hasSugg,    \* whether the newest snapshot has a bet at or over the threshold
    stateFile,  \* last_ts in last_alerted.json (0: no file, or no such key)
    sent,       \* per snapshot timestamp, the full alerts sent so far
    scanner,    \* per running edges_scan.py: where it is, its ts and its state
    bets,       \* the bets table, bet_id -> row
    gradeOut    \* how the last enter_result.py run ended

engineVars == <<price, conv, kellyArg, kellyRet, snapshot, appOut, scanOut>>
quotaVars == <<requests_used, pullOut>>
alertVars == <<latestTs, hasSugg, stateFile, sent, scanner>>
betVars == <<bets, gradeOut>>

vars == <<engineVars, quotaVars, alertVars, betVars>>

-----------------------------------------------------------------------------
(* Values *)

None == [none |-> TRUE]

Raised(e) == [raised |-> e]

Exceptions == {"ZeroDivisionError", "ValueError", "TypeError"}

IsRaised(x) == x \in {Raised(e) : e \in Exceptions}

IntVal(k) == [v |-> k]

Abs(k) == IF k < 0 THEN -k ELSE k

RECURSIVE GCD(_, _)
GCD(a, b) == IF b = 0 THEN a ELSE GCD(b, a % b)

\* the one element of a singleton set; {e(v) : v \in {arg}} evaluates arg once
The(S) == CHOOSE x \in S : TRUE

\* the rational n/d (d # 0) in lowest terms with a positive denominator
Rat(n0, d0) ==
    The({[n |-> (sg[1] * n) \div sg[2], d |-> (sg[1] * d) \div sg[2]] :
            n \in {n0}, d \in {d0},
            sg \in {<<IF d0 < 0 THEN -1 ELSE 1, GCD(Abs(n0), Abs(d0))>>}})

Zero == [n |-> 0, d |-> 1]
One == [n |-> 1, d |-> 1]
FromInt(k) == [n |-> k, d |-> 1]

RatAdd(x0, y0) == The({Rat(x.n * y.d + y.n * x.d, x.d * y.d) : x \in {x0}, y \in {y0}})
RatSub(x0, y0) == The({Rat(x.n * y.d - y.n * x.d, x.d * y.d) : x \in {x0}, y \in {y0}})
RatMul(x0, y0) == The({Rat(x.n * y.n, x.d * y.d) : x \in {x0}, y \in {y0}})
\* x0 / y0 for y0 # 0
RatDiv(x0, y0) == The({Rat(x.n * y.d, x.d * y.n) : x \in {x0}, y \in {y0}})
RatLt(x0, y0) == \E x \in {x0}, y \in {y0} : x.n * y.d < y.n * x.d
RatLe(x0, y0) == \E x \in {x0}, y \in {y0} : x.n * y.d <= y.n * x.d
\* Python min(x, y) and max(x, y)
RatMin(x0, y0) == The({IF RatLt(y, x) THEN y ELSE x : x \in {x0}, y \in {y0}})
RatMax(x0, y0) == The({IF RatLt(x, y) THEN y ELSE x : x \in {x0}, y \in {y0}})

RECURSIVE Pow10(_)
Pow10(k) == IF k = 0 THEN 1 ELSE 10 * Pow10(k - 1)

\* nearest integer to x0, ties to the even one
RoundHalfEven(x0) ==
    The({IF 2 * qr[2] < x.d THEN qr[1]
         ELSE IF 2 * qr[2] > x.d THEN qr[1] + 1
         ELSE IF qr[1] % 2 = 0 THEN qr[1] ELSE qr[1] + 1 :
            x \in {x0}, qr \in {<<x0.n \div x0.d, x0.n % x0.d>>}})

\* Python round(x0, ndigits)
Round(x0, ndigits) ==
    The({Rat(RoundHalfEven(Rat(x.n * p, x.d)), p) : x \in {x0}, p \in {Pow10(ndigits)}})

\* the tables and files a specification does not touch stay as created
QuotaIdle == requests_used = 0 /\ pullOut = None
AlertIdle ==
    /\ latestTs = 0 /\ hasSugg = FALSE /\ stateFile = 0
    /\ sent = <<>> /\ scanner = <<>>
BetsIdle == bets = <<>> /\ gradeOut = None

-----------------------------------------------------------------------------
(* Program constants *)

UNIT_DOLLARS == 3
KELLY_FRACTION == Rat(25, 100)
EDGE_THRESHOLD == Rat(3, 100)

-----------------------------------------------------------------------------
(* app.py helpers *)

\* a slip in the positive branch: the numerator a instead of 100
App_american_to_prob_swapped(a) ==
    IF a > 0 THEN RatDiv(FromInt(a), FromInt(a + 100))
    ELSE RatDiv(FromInt(-a), FromInt((-a) + 100))

App_american_to_prob(a) ==
    IF a > 0 THEN RatDiv(FromInt(100), FromInt(a + 100))
    ELSE RatDiv(FromInt(-a), FromInt((-a) + 100))

App_american_to_decimal(a) ==
    IF a > 0 THEN RatAdd(One, RatDiv(FromInt(a), FromInt(100)))
    ELSE IF -a = 0 THEN Raised("ZeroDivisionError")
    ELSE RatAdd(One, RatDiv(FromInt(100), FromInt(-a)))

\* the lower clamp forgotten: min(f, 1.0) alone
App_kelly_fraction_unclamped(p0, dec0) ==
    The({IF b = Zero THEN Raised("ZeroDivisionError")
         ELSE The({RatMin(f, One) :
                      f \in {RatDiv(RatSub(RatMul(p, b), q), b)}}) :
            p \in {p0}, b \in {RatSub(dec0, One)}, q \in {RatSub(One, p0)}})

App_kelly_fraction(p0, dec0) ==
    The({IF b = Zero THEN Raised("ZeroDivisionError")
         ELSE The({RatMax(Zero, RatMin(f, One)) :
                      f \in {RatDiv(RatSub(RatMul(p, b), q), b)}}) :
            p \in {p0}, b \in {RatSub(dec0, One)}, q \in {RatSub(One, p0)}})

(* edges_scan.py helpers *)

Scan_american_to_prob(a) ==
    IF a > 0 THEN RatDiv(FromInt(100), FromInt(a + 100))
    ELSE RatDiv(FromInt(-a), FromInt((-a) + 100))

Scan_american_to_decimal(a) ==
    IF a > 0 THEN RatAdd(One, RatDiv(FromInt(a), FromInt(100)))
    ELSE IF -a = 0 THEN Raised("ZeroDivisionError")
    ELSE RatAdd(One, RatDiv(FromInt(100), FromInt(-a)))

Scan_kelly_fraction(p0, dec0) ==
    The({IF b = Zero THEN Raised("ZeroDivisionError")
         ELSE The({IF RatLt(Zero, f) /\ RatLt(f, One) THEN f
                   ELSE IF RatLe(f, Zero) THEN Zero ELSE One :
                      f \in {RatDiv(RatSub(RatMul(p, b), q), b)}}) :
            p \in {p0}, b \in {RatSub(dec0, One)}, q \in {RatSub(One, p0)}})

\* app.py line 107: frac = kelly_fraction(f, dec) * 0.25
App_frac(f, dec) ==
    The({IF IsRaised(k) THEN k ELSE RatMul(k, Rat(25, 100)) :
            k \in {App_kelly_fraction(f, dec)}})

\* edges_scan.py line 198: frac = kelly_fraction(fair, dec) * KELLY_FRACTION
Scan_frac(fair, dec) ==
    The({IF IsRaised(k) THEN k ELSE RatMul(k, KELLY_FRACTION) :
            k \in {Scan_kelly_fraction(fair, dec)}})

\* the cap forgotten: round(frac * 100, 2) alone
App_stake_dollars_uncapped(frac) ==
    Round(RatMul(frac, FromInt(100)), 2)

\* app.py line 108: stake_dollars = min(UNIT_DOLLARS, round(frac * 100, 2))
App_stake_dollars(frac) ==
    RatMin(FromInt(UNIT_DOLLARS), Round(RatMul(frac, FromInt(100)), 2))

\* edges_scan.py line 199, the same expression
Scan_stake_dollars(frac) ==
    RatMin(FromInt(UNIT_DOLLARS), Round(RatMul(frac, FromInt(100)), 2))

(* odds_pull.py helper: a is a JSON price, IntVal(k) or None *)

Pull_american_to_prob(a) ==
    IF a = None THEN None      \* int(None) raises, the bare except returns None
    ELSE IF a.v > 0 THEN RatDiv(FromInt(100), FromInt(a.v + 100))
    ELSE RatDiv(FromInt(-a.v), FromInt((-a.v) + 100))

-----------------------------------------------------------------------------
(* The conversions as pure functions: every integer price in a range *)

MaxAbsPrice == 250

PriceRange == (-MaxAbsPrice) .. MaxAbsPrice

ConvIdle == [prob |-> None, dec |-> None]

InitConvert ==
    /\ price \in PriceRange
    /\ conv = ConvIdle
    /\ kellyArg = None /\ kellyRet = None
    /\ QuotaIdle /\ AlertIdle /\ BetsIdle
    /\ snapshot = {} /\ appOut = None /\ scanOut = None

CallAmericanToProb ==
    /\ conv.prob = None
    /\ conv' = [conv EXCEPT !.prob =
                    [app  |-> App_american_to_prob(price),
                     scan |-> Scan_american_to_prob(price),
                     pull |-> Pull_american_to_prob(IntVal(price))]]
    /\ UNCHANGED <<price, kellyArg, kellyRet, snapshot, appOut, scanOut,
                   quotaVars, alertVars, betVars>>

CallAmericanToDecimal ==
    /\ conv.dec = None
    /\ conv' = [conv EXCEPT !.dec =
                    [app  |-> App_american_to_decimal(price),
                     scan |-> Scan_american_to_decimal(price)]]
    /\ UNCHANGED <<price, kellyArg, kellyRet, snapshot, appOut, scanOut,
                   quotaVars, alertVars, betVars>>

NextConvert == CallAmericanToProb \/ CallAmericanToDecimal

SpecConvert == InitConvert /\ [][NextConvert]_vars

-----------------------------------------------------------------------------
(* kelly_fraction as a pure function: p on a grid of [0,1], dec on a grid  *)
(* of [1, 1 + MaxDecSteps/DecGrid]                                         *)

ProbGrid == 10
DecGrid == 4
MaxDecSteps == 12

KellyArgs ==
    {[p |-> Rat(i, ProbGrid), dec |-> Rat(DecGrid + j, DecGrid)] :
        i \in 0 .. ProbGrid, j \in 0 .. MaxDecSteps}

InitKelly ==
    /\ kellyArg \in KellyArgs
    /\ kellyRet = None
    /\ price = 0 /\ conv = ConvIdle
    /\ snapshot = {} /\ appOut = None /\ scanOut = None
    /\ QuotaIdle /\ AlertIdle /\ BetsIdle

CallKellyFraction ==
    /\ kellyRet = None
    /\ kellyRet' = [app  |-> App_kelly_fraction(kellyArg.p, kellyArg.dec),
                    scan |-> Scan_kelly_fraction(kellyArg.p, kellyArg.dec),
                    appFrac  |-> App_frac(kellyArg.p, kellyArg.dec),
                    scanFrac |-> Scan_frac(kellyArg.p, kellyArg.dec)]
    /\ UNCHANGED <<price, conv, kellyArg, snapshot, appOut, scanOut,
                   quotaVars, alertVars, betVars>>

NextKelly == CallKellyFraction

SpecKelly == InitKelly /\ [][NextKelly]_vars

-----------------------------------------------------------------------------
(* The snapshot pipeline.  One game, its three markets; the feed prices    *)
(* each market with at most two outcomes (a two-way market).  The rows of  *)
(* a snapshot are a set: neither reader depends on the order of rows with  *)
(* distinct (game, market, side).  Columns the computation only copies     *)
(* (team names, point, raw_json) are left out.                             *)

Games == <<"g1">>                           \* game ids, ascending
MARKETS == <<"h2h", "spreads", "totals">>   \* ascending, as both readers sort

MaxGroups == 2    \* markets the bookmaker prices in one feed

FeedPrices == {IntVal(-110), IntVal(150), IntVal(0), None}

FeedNames(mk) ==
    IF mk = "totals" THEN {"Over", "Under"}
    ELSE {"Home", "Away", "Kansas City Chiefs"}

\* str.lower()
Lower(s) ==
    CASE s = "Home" -> "home"
      [] s = "Away" -> "away"
      [] s = "Over" -> "over"
      [] s = "Under" -> "under"
      [] s = "Kansas City Chiefs" -> "kansas city chiefs"
      [] OTHER -> s

Range(f) == {f[i] : i \in DOMAIN f}

GroupKeys == {<<g, m>> : g \in Range(Games), m \in Range(MARKETS)}

\* the outcomes of one market of the feed: one or two, with distinct names
MarketOutcomes(mk) ==
    LET one == {[name |-> nm, price |-> pr] : nm \in FeedNames(mk), pr \in FeedPrices}
    IN  {{o} : o \in one}
        \cup {{pr[1], pr[2]} : pr \in {q \in one \X one : q[1].name # q[2].name}}

\* the feeds of at most MaxGroups priced markets: key -> outcomes
Feeds ==
    UNION {[ks -> UNION {MarketOutcomes(m) : m \in Range(MARKETS)}] :
              ks \in {k \in SUBSET GroupKeys : Cardinality(k) <= MaxGroups}}

FeedOk(feed) == \A k \in DOMAIN feed : feed[k] \in MarketOutcomes(k[2])

\* odds_pull.py save_snap: one row per outcome
save_snap(feed) ==
    UNION {{[game_id |-> k[1], market |-> k[2], side |-> Lower(o.name),
             price_american |-> o.price,
             implied_prob |-> Pull_american_to_prob(o.price)] : o \in feed[k]} :
           k \in DOMAIN feed}

\* position of x in the ascending sequence s
IndexOf(s, x) == CHOOSE i \in DOMAIN s : s[i] = x

\* the (game_id, market) keys of df in ascending order
RECURSIVE SortedKeysFrom(_, _, _)
SortedKeysFrom(df, gi, mi) ==
    IF gi > Len(Games) THEN <<>>
    ELSE IF mi > Len(MARKETS) THEN SortedKeysFrom(df, gi + 1, 1)
    ELSE LET k == <<Games[gi], MARKETS[mi]>>
             rest == SortedKeysFrom(df, gi, mi + 1)
         IN  IF \E r \in df : r.game_id = k[1] /\ r.market = k[2]
             THEN <<k>> \o rest ELSE rest

SortedKeys(df) == SortedKeysFrom(df, 1, 1)

Group(df, k) == {r \in df : r.game_id = k[1] /\ r.market = k[2]}

\* the (first) row of grp with this side
RowOf(grp, side) == CHOOSE r \in grp : r.side = side

Ok(recs) == [status |-> "ok", records |-> recs]
Fail(e) == [status |-> e, records |-> <<>>]

-----------------------------------------------------------------------------
(* app.py: load_board and compute_edges *)

load_board(rows) == {[r EXCEPT !.side = Lower(r.side)] : r \in rows}

\* imp(r): the posted implied_prob, else derived from the price;
\* int(nan) raises ValueError
App_imp(r) ==
    IF r.implied_prob # None THEN r.implied_prob
    ELSE IF r.price_american = None THEN Raised("ValueError")
    ELSE App_american_to_prob(r.price_american.v)

\* a group is skipped only when both sides are missing; a lone side is
\* paired with itself
App_rows_lenient(grp, mkt) ==
    IF mkt \in {"h2h", "spreads"}
    THEN IF {"home", "away"} \cap {r.side : r \in grp} = {} THEN <<>>
         ELSE <<RowOf(grp, CHOOSE sd \in {"home", "away"} \cap {r.side : r \in grp} :
                               sd = "home" \/ "home" \notin {r.side : r \in grp}),
                RowOf(grp, CHOOSE sd \in {"home", "away"} \cap {r.side : r \in grp} :
                               sd = "away" \/ "away" \notin {r.side : r \in grp})>>
    ELSE IF mkt = "totals"
    THEN IF {"over", "under"} \cap {r.side : r \in grp} = {} THEN <<>>
         ELSE <<RowOf(grp, CHOOSE sd \in {"over", "under"} \cap {r.side : r \in grp} :
                               sd = "over" \/ "over" \notin {r.side : r \in grp}),
                RowOf(grp, CHOOSE sd \in {"over", "under"} \cap {r.side : r \in grp} :
                               sd = "under" \/ "under" \notin {r.side : r \in grp})>>
    ELSE <<>>

\* the two rows of a group, <<>> when the group is skipped
App_rows(grp, mkt) ==
    IF mkt \in {"h2h", "spreads"}
    THEN IF ~({"home", "away"} \subseteq {r.side : r \in grp}) THEN <<>>
         ELSE <<RowOf(grp, "home"), RowOf(grp, "away")>>
    ELSE IF mkt = "totals"
    THEN IF ~({"over", "under"} \subseteq {r.side : r \in grp}) THEN <<>>
         ELSE <<RowOf(grp, "over"), RowOf(grp, "under")>>
    ELSE <<>>

\* the second leg left unnormalised
App_fair_probs_half(p1, p2, tot) == <<RatDiv(p1, tot), p2>>

\* the two legs zipped in the wrong order
App_fair_probs_swapped(p1, p2, tot) == <<RatDiv(p2, tot), RatDiv(p1, tot)>>

\* fair_probs = [p1/tot, p2/tot]
App_fair_probs(p1, p2, tot) == <<RatDiv(p1, tot), RatDiv(p2, tot)>>

\* the record appended for row r with fair probability f, frac computed
App_append(r, f, implied, frac) ==
    [game_id |-> r.game_id, market |-> r.market, side |-> r.side,
     price |-> r.price_american.v,
     implied |-> Round(implied, 3), fair |-> Round(f, 3),
     edge |-> Round(RatSub(f, implied), 3),
     stake |-> App_stake_dollars(frac)]

\* the body of the loop over zip(rows, fair_probs): a record or Raised
App_record(r0, f0) ==
    The({IF r.price_american = None THEN Raised("ValueError")
         ELSE The({IF IsRaised(dec) THEN dec
                   ELSE The({IF IsRaised(frac) THEN frac
                             ELSE App_append(r, f, App_imp(r), frac) :
                                frac \in {App_frac(f, dec)}}) :
                      dec \in {App_american_to_decimal(r.price_american.v)}}) :
            r \in {r0}, f \in {f0}})

\* the guard written tot < 0: a zero total reaches the division
App_pair_unguarded(rows, p1, p2) ==
    The({IF RatLt(tot, Zero) THEN Ok(<<>>)
         ELSE IF tot = Zero THEN Fail("ZeroDivisionError")
         ELSE The({IF IsRaised(rr[1]) THEN Fail(rr[1].raised)
                   ELSE IF IsRaised(rr[2]) THEN Fail(rr[2].raised)
                   ELSE Ok(rr) :
                      rr \in {The({<<App_record(rows[1], fp[1]),
                                     App_record(rows[2], fp[2])>> :
                                      fp \in {App_fair_probs(p1, p2, tot)}})}}) :
            tot \in {RatAdd(p1, p2)}})

\* the records of a pair whose implied probabilities are p1 and p2
App_pair(rows, p1, p2) ==
    The({IF RatLe(tot, Zero) THEN Ok(<<>>)
         ELSE The({IF IsRaised(rr[1]) THEN Fail(rr[1].raised)
                   ELSE IF IsRaised(rr[2]) THEN Fail(rr[2].raised)
                   ELSE Ok(rr) :
                      rr \in {The({<<App_record(rows[1], fp[1]),
                                     App_record(rows[2], fp[2])>> :
                                      fp \in {App_fair_probs(p1, p2, tot)}})}}) :
            tot \in {RatAdd(p1, p2)}})

\* one iteration of the loop over df.groupby(["game_id", "market"])
App_group(grp, mkt) ==
    The({IF rows = <<>> THEN Ok(<<>>)
         ELSE The({IF IsRaised(pp[1]) THEN Fail(pp[1].raised)
                   ELSE IF IsRaised(pp[2]) THEN Fail(pp[2].raised)
                   ELSE App_pair(rows, pp[1], pp[2]) :
                      pp \in {<<App_imp(rows[1]), App_imp(rows[2])>>}}) :
            rows \in {App_rows(grp, mkt)}})

\* the loop: out in production order, or the first exception
RECURSIVE App_loop(_, _, _)
App_loop(df, keys, out) ==
    IF keys = <<>> THEN Ok(out)
    ELSE The({IF g.status # "ok" THEN g
              ELSE App_loop(df, t, o \o g.records) :
                 g \in {App_group(Group(df, Head(keys)), Head(keys)[2])},
                 t \in {Tail(keys)}, o \in {out}})

\* DataFrame.sort_values("edge", ascending=False) with the default
\* kind="quicksort", which is not stable: every descending order of out
RECURSIVE App_sort_values(_, _)
App_sort_values(out, left) ==
    IF left = {} THEN {<<>>}
    ELSE UNION {{<<out[i]>> \o t : t \in App_sort_values(out, left \ {i})} :
                i \in {k \in left : \A j \in left : RatLe(out[j].edge, out[k].edge)}}

\* the possible results of compute_edges(df)
compute_edges(df) ==
    UNION {IF res.status # "ok" THEN {res}
           ELSE {Ok(s) : s \in App_sort_values(res.records, DOMAIN res.records)} :
              res \in {App_loop(df, SortedKeys(df), <<>>)}}

-----------------------------------------------------------------------------
(* edges_scan.py: main *)

Scan_imp(r) ==
    IF r.implied_prob # None THEN r.implied_prob
    ELSE IF r.price_american = None THEN Raised("TypeError")
    ELSE Scan_american_to_prob(r.price_american.v)

\* pair, <<>> when the group is skipped
Scan_pair(grp, market) ==
    IF market \in {"h2h", "spreads"}
    THEN IF ~(\E r \in grp : r.side = "home") \/ ~(\E r \in grp : r.side = "away")
         THEN <<>>
         ELSE <<RowOf(grp, "home"), RowOf(grp, "away")>>
    ELSE IF ~(\E r \in grp : r.side = "over") \/ ~(\E r \in grp : r.side = "under")
         THEN <<>>
         ELSE <<RowOf(grp, "over"), RowOf(grp, "under")>>

\* fair_probs = (p1 / tot, p2 / tot)
Scan_fair_probs(p1, p2, tot) == <<RatDiv(p1, tot), RatDiv(p2, tot)>>

ScanOk(all, sugg) == [status |-> "ok", all_bets |-> all, suggestions |-> sugg]
ScanFail(e) == [status |-> e, all_bets |-> <<>>, suggestions |-> <<>>]

\* the dict appended to all_bets
Scan_bet(r, fair, imp) ==
    [game_id |-> r.game_id, market |-> r.market, side |-> r.side,
     price |-> r.price_american.v,
     fair |-> Round(fair, 3), implied |-> Round(imp, 3),
     edge |-> Round(RatSub(fair, imp), 3)]

\* the dict appended to suggestions
Scan_suggestion(r, fair, imp, frac) ==
    [game_id |-> r.game_id, market |-> r.market, side |-> r.side,
     price |-> r.price_american.v,
     fair |-> Round(fair, 3), edge |-> Round(RatSub(fair, imp), 3),
     stake |-> Scan_stake_dollars(frac)]

\* the body of the loop over zip(pair, fair_probs)
Scan_row(r0, fair0) ==
    The({IF r.price_american = None THEN ScanFail("TypeError")
         ELSE IF ~RatLe(EDGE_THRESHOLD, RatSub(fair, imp))
         THEN ScanOk(<<Scan_bet(r, fair, imp)>>, <<>>)
         ELSE The({IF IsRaised(dec) THEN ScanFail(dec.raised)
                   ELSE The({IF IsRaised(frac) THEN ScanFail(frac.raised)
                             ELSE ScanOk(<<Scan_bet(r, fair, imp)>>,
                                         <<Scan_suggestion(r, fair, imp, frac)>>) :
                                frac \in {Scan_frac(fair, dec)}}) :
                      dec \in {Scan_american_to_decimal(r.price_american.v)}}) :
            r \in {r0}, fair \in {fair0}, imp \in {Scan_imp(r0)}})

\* the rows of a pair whose implied probabilities are p1 and p2
Scan_pair_rows(pair, p1, p2) ==
    The({IF RatLe(tot, Zero) THEN ScanOk(<<>>, <<>>)
         ELSE The({IF rr[1].status # "ok" THEN rr[1]
                   ELSE IF rr[2].status # "ok" THEN rr[2]
                   ELSE ScanOk(rr[1].all_bets \o rr[2].all_bets,
                               rr[1].suggestions \o rr[2].suggestions) :
                      rr \in {The({<<Scan_row(pair[1], fp[1]),
                                     Scan_row(pair[2], fp[2])>> :
                                      fp \in {Scan_fair_probs(p1, p2, tot)}})}}) :
            tot \in {RatAdd(p1, p2)}})

\* one iteration of the loop over by_key.items()
Scan_group(grp, market) ==
    The({IF pair = <<>> THEN ScanOk(<<>>, <<>>)
         ELSE The({IF IsRaised(pp[1]) THEN ScanFail(pp[1].raised)
                   ELSE IF IsRaised(pp[2]) THEN ScanFail(pp[2].raised)
                   ELSE Scan_pair_rows(pair, pp[1], pp[2]) :
                      pp \in {<<Scan_imp(pair[1]), Scan_imp(pair[2])>>}}) :
            pair \in {Scan_pair(grp, market)}})

RECURSIVE Scan_loop(_, _, _)
Scan_loop(rows, keys, acc) ==
    IF keys = <<>> THEN acc
    ELSE The({IF g.status # "ok" THEN g
              ELSE Scan_loop(rows, t, ScanOk(a.all_bets \o g.all_bets,
                                             a.suggestions \o g.suggestions)) :
                 g \in {Scan_group(Group(rows, Head(keys)), Head(keys)[2])},
                 t \in {Tail(keys)}, a \in {acc}})

\* list.sort(key=edge, reverse=True): stable, equal keys keep their order
RECURSIVE InsertDesc(_, _)
InsertDesc(sorted, x) ==
    IF sorted = <<>> THEN <<x>>
    ELSE IF RatLt(Head(sorted).edge, x.edge) THEN <<x>> \o sorted
    ELSE <<Head(sorted)>> \o InsertDesc(Tail(sorted), x)

RECURSIVE Scan_sort(_)
Scan_sort(s) ==
    IF s = <<>> THEN <<>>
    ELSE The({InsertDesc(front, s[Len(s)]) :
                 front \in {Scan_sort(SubSeq(s, 1, Len(s) - 1))}})

\* the loop and the two sorts of main, on the rows of the latest snapshot
Scan_main(rows) ==
    The({IF res.status # "ok" THEN res
         ELSE ScanOk(Scan_sort(res.all_bets), Scan_sort(res.suggestions)) :
            res \in {Scan_loop(rows, SortedKeys(rows), ScanOk(<<>>, <<>>))}})

-----------------------------------------------------------------------------
(* The pipeline: the first pull into an empty database, then the dashboard *)
(* and the scanner read the latest snapshot.  A later pull only replaces   *)
(* the latest snapshot by another one of the same set.                     *)

Init ==
    /\ snapshot = {}
    /\ appOut = None /\ scanOut = None
    /\ price = 0 /\ conv = ConvIdle
    /\ kellyArg = None /\ kellyRet = None
    /\ QuotaIdle /\ AlertIdle /\ BetsIdle

\* odds_pull.py main: fetch, save_snap
SaveSnap ==
    /\ snapshot = {}
    /\ \E feed \in Feeds :
          /\ FeedOk(feed)
          /\ snapshot' = save_snap(feed)
    /\ UNCHANGED <<appOut, scanOut, price, conv, kellyArg, kellyRet,
                   quotaVars, alertVars, betVars>>

\* app.py: board = load_board(ts); edges = compute_edges(board)
ComputeEdges ==
    /\ snapshot # {}
    /\ appOut = None
    /\ appOut' \in compute_edges(load_board(snapshot))
    /\ UNCHANGED <<snapshot, scanOut, price, conv, kellyArg, kellyRet,
                   quotaVars, alertVars, betVars>>

\* edges_scan.py main up to the two sorts
ScanMain ==
    /\ snapshot # {}
    /\ scanOut = None
    /\ scanOut' = Scan_main(snapshot)
    /\ UNCHANGED <<snapshot, appOut, price, conv, kellyArg, kellyRet,
                   quotaVars, alertVars, betVars>>

Next == SaveSnap \/ ComputeEdges \/ ScanMain

Spec == Init /\ [][Next]_vars

-----------------------------------------------------------------------------
(* Properties of the conversions *)

\* c is a probability strictly between 0 and 1 given by the formula for a
ProbOfPrice(c, a) ==
    /\ c # None /\ ~IsRaised(c)
    /\ RatLt(Zero, c) /\ RatLt(c, One)
    /\ (a > 0 => c.n * (a + 100) = 100 * c.d)
    /\ (a < 0 => c.n * ((-a) + 100) = (-a) * c.d)

\* C4: for every American price a with |a| >= 100, each of the three copies
\* of american_to_prob returns a probability strictly between 0 and 1,
\* 100/(a+100) for a > 0 and (-a)/(-a+100) for a < 0.
C4_ProbInOpenUnitInterval ==
    (conv.prob # None /\ Abs(price) >= 100) =>
        /\ ProbOfPrice(conv.prob.app, price)
        /\ ProbOfPrice(conv.prob.scan, price)
        /\ ProbOfPrice(conv.prob.pull, price)

\* -110 has been converted by the three copies to 11/21 = 0.5238...
C4_Witness ==
    /\ price = -110
    /\ conv.prob # None
    /\ conv.prob.app = [n |-> 11, d |-> 21]
    /\ conv.prob.scan = [n |-> 11, d |-> 21]
    /\ conv.prob.pull = [n |-> 11, d |-> 21]

\* C8: converting the price 0 fails: american_to_prob(0) returns no value
\* in any of the three copies.
C8_ZeroPriceRaises ==
    (price = 0 /\ conv.prob # None) =>
        /\ IsRaised(conv.prob.app)
        /\ IsRaised(conv.prob.scan)
        /\ IsRaised(conv.prob.pull)

-----------------------------------------------------------------------------
(* Properties of kelly_fraction *)

\* the Kelly fraction of (p, dec) for dec > 1, clamped below at 0:
\* f* = (p*dec - 1)/(dec - 1), positive exactly when p*dec > 1
ClampedKelly(p, dec) ==
    IF RatLe(RatMul(p, dec), One) THEN Zero
    ELSE RatDiv(RatSub(RatMul(p, dec), One), RatSub(dec, One))

\* fr is k scaled by the safety fraction and lies in [0, KELLY_FRACTION]
SafeFraction(fr, k) ==
    /\ ~IsRaised(fr) /\ ~IsRaised(k)
    /\ RatLe(Zero, fr) /\ RatLe(fr, KELLY_FRACTION)
    /\ RatLe(Zero, k) /\ RatLe(k, One)
    /\ fr = RatMul(k, KELLY_FRACTION)

\* C5: for every p in [0,1] and every decimal odds dec > 1, both copies of
\* kelly_fraction return f* = (p*b - (1-p))/b clamped to [0,1], and the
\* value scaled by the safety fraction lies in [0, KELLY_FRACTION].
C5_FractionalKellyInRange ==
    (kellyRet # None /\ RatLt(One, kellyArg.dec)) =>
        /\ SafeFraction(kellyRet.appFrac, kellyRet.app)
        /\ SafeFraction(kellyRet.scanFrac, kellyRet.scan)
        /\ kellyRet.app = ClampedKelly(kellyArg.p, kellyArg.dec)
        /\ kellyRet.scan = ClampedKelly(kellyArg.p, kellyArg.dec)

\* a bet with positive expectation has been sized strictly inside the range
C5_Witness ==
    /\ kellyRet # None
    /\ RatLt(One, kellyArg.dec)
    /\ ~IsRaised(kellyRet.appFrac)
    /\ RatLt(Zero, kellyRet.appFrac) /\ RatLt(kellyRet.appFrac, KELLY_FRACTION)
    /\ kellyRet.scanFrac = kellyRet.appFrac

-----------------------------------------------------------------------------
(* compute_edges as a function of any DataFrame: one h2h group whose two   *)
(* rows carry a valid price and a posted implied_prob that need not be the *)
(* one the price implies                                                   *)

EnginePrices == {IntVal(-150), IntVal(-110), IntVal(130), IntVal(145), IntVal(150)}
EnginePosted == {None, Rat(2, 5), Rat(3, 5), Rat(7, 10)}

EngineFrames ==
    {{[game_id |-> "g1", market |-> "h2h", side |-> "home",
       price_american |-> ph, implied_prob |-> ih],
      [game_id |-> "g1", market |-> "h2h", side |-> "away",
       price_american |-> pa, implied_prob |-> ia]} :
        ph \in EnginePrices, pa \in EnginePrices,
        ih \in EnginePosted, ia \in EnginePosted}

InitEngine ==
    /\ snapshot \in EngineFrames
    /\ appOut = None /\ scanOut = None
    /\ price = 0 /\ conv = ConvIdle
    /\ kellyArg = None /\ kellyRet = None
    /\ QuotaIdle /\ AlertIdle /\ BetsIdle

NextEngine == ComputeEdges \/ ScanMain

SpecEngine == InitEngine /\ [][NextEngine]_vars

-----------------------------------------------------------------------------
(* Properties of the edge computation *)

Keys(rows) == {<<r.game_id, r.market>> : r \in rows}

ExpectedSides(mkt) == IF mkt = "totals" THEN <<"over", "under">> ELSE <<"home", "away">>

\* both expected sides of group k are among rows
Complete(rows, k) ==
    \A i \in 1 .. 2 : \E r \in Group(rows, k) : r.side = ExpectedSides(k[2])[i]

PairOf(rows, k) ==
    <<RowOf(Group(rows, k), ExpectedSides(k[2])[1]),
      RowOf(Group(rows, k), ExpectedSides(k[2])[2])>>

\* a row whose price is a nonzero integer
WellFormed(r) == r.price_american # None /\ r.price_american.v # 0

\* the implied probability the computation uses for a well-priced row
ImpliedOf(r) ==
    IF r.implied_prob # None THEN r.implied_prob
    ELSE IF r.price_american.v > 0
    THEN Rat(100, r.price_american.v + 100)
    ELSE Rat(-r.price_american.v, 100 - r.price_american.v)

\* group k is a pair the computation accepts: both sides, p1 + p2 > 0
Accepted(rows, k) ==
    /\ Complete(rows, k)
    /\ \A i \in 1 .. 2 : WellFormed(PairOf(rows, k)[i])
    /\ RatLt(Zero, RatAdd(ImpliedOf(PairOf(rows, k)[1]), ImpliedOf(PairOf(rows, k)[2])))

\* the record of group k and side sd in the sequence recs, if any
RecsOf(recs, k, sd) ==
    {recs[i] : i \in {j \in DOMAIN recs :
        recs[j].game_id = k[1] /\ recs[j].market = k[2] /\ recs[j].side = sd}}

\* recs holds for pair k exactly one record per side, with the no-vig
\* probabilities p1/(p1+p2) and p2/(p1+p2) rounded to 3 digits
FairOfPair(rows, recs, k) ==
    LET pr == PairOf(rows, k)
        p1 == ImpliedOf(pr[1])
        p2 == ImpliedOf(pr[2])
        tot == RatAdd(p1, p2)
        f1 == RatDiv(p1, tot)
        f2 == RatDiv(p2, tot)
    IN  /\ RatAdd(f1, f2) = One
        /\ RecsOf(recs, k, pr[1].side) # {}
        /\ RecsOf(recs, k, pr[2].side) # {}
        /\ \A r \in RecsOf(recs, k, pr[1].side) : r.fair = Round(f1, 3)
        /\ \A r \in RecsOf(recs, k, pr[2].side) : r.fair = Round(f2, 3)
        /\ \A r1 \in RecsOf(recs, k, pr[1].side), r2 \in RecsOf(recs, k, pr[2].side) :
              RatAdd(r1.fair, r2.fair) = One

\* C1: for every pair the computation accepts (both sides present,
\* p1 + p2 > 0) the two fair probabilities are p1/(p1+p2) and p2/(p1+p2)
\* and sum to exactly 1, in compute_edges and in the edges_scan loop.
C1_FairProbsSumToOne ==
    /\ (appOut # None /\ appOut.status = "ok") =>
          \A k \in Keys(snapshot) :
              Accepted(snapshot, k) => FairOfPair(snapshot, appOut.records, k)
    /\ (scanOut # None /\ scanOut.status = "ok") =>
          \A k \in Keys(snapshot) :
              Accepted(snapshot, k) => FairOfPair(snapshot, scanOut.all_bets, k)

\* over -110 / under +150 has been de-vigged to 0.567 / 0.433 by both
C1_Witness ==
    /\ appOut # None /\ scanOut # None
    /\ appOut.status = "ok" /\ scanOut.status = "ok"
    /\ Accepted(snapshot, <<"g1", "totals">>)
    /\ \E i, j \in DOMAIN appOut.records :
          /\ appOut.records[i].side = "over" /\ appOut.records[i].fair = Rat(567, 1000)
          /\ appOut.records[j].side = "under" /\ appOut.records[j].fair = Rat(433, 1000)
    /\ \E i, j \in DOMAIN scanOut.all_bets :
          /\ scanOut.all_bets[i].side = "over" /\ scanOut.all_bets[i].fair = Rat(567, 1000)
          /\ scanOut.all_bets[j].side = "under" /\ scanOut.all_bets[j].fair = Rat(433, 1000)

StakeInRange(r) ==
    RatLe(Zero, r.stake) /\ RatLe(r.stake, FromInt(UNIT_DOLLARS))

\* C2: every stake the edge computation produces (every record of
\* compute_edges, every suggestion of edges_scan) is in [0, UNIT_DOLLARS].
C2_StakeWithinUnit ==
    /\ appOut # None =>
          \A i \in DOMAIN appOut.records : StakeInRange(appOut.records[i])
    /\ scanOut # None =>
          \A i \in DOMAIN scanOut.suggestions : StakeInRange(scanOut.suggestions[i])

\* the cap binds for one record, another is staked strictly inside the
\* range, and the scanner has suggested a capped stake too
C2_Witness ==
    /\ appOut # None /\ scanOut # None
    /\ \E i, j \in DOMAIN appOut.records :
          /\ appOut.records[i].stake = FromInt(UNIT_DOLLARS)
          /\ RatLt(Zero, appOut.records[j].stake)
          /\ RatLt(appOut.records[j].stake, FromInt(UNIT_DOLLARS))
    /\ \E i \in DOMAIN scanOut.suggestions :
          scanOut.suggestions[i].stake = FromInt(UNIT_DOLLARS)

\* C3: for every record compute_edges produces, a negative edge
\* (fair - implied) comes with a stake of 0, also when the posted
\* implied_prob differs from the one the price implies.
C3_NegativeEdgeNoStake ==
    appOut # None =>
        \A i \in DOMAIN appOut.records :
            RatLt(appOut.records[i].edge, Zero) => appOut.records[i].stake = Zero

\* the rows of the groups that have both expected sides
CompleteRows(rows) == {r \in rows : Complete(rows, <<r.game_id, r.market>>)}

\* no record of recs belongs to a group of rows that lacks a side
NoneFromIncomplete(rows, recs) ==
    \A i \in DOMAIN recs : Complete(rows, <<recs[i].game_id, recs[i].market>>)

\* every group of rows with both sides is a pair the computation accepts
AllCompleteAccepted(rows) ==
    \A k \in Keys(rows) : Complete(rows, k) => Accepted(rows, k)

\* C6: a (game, market) group that lacks one of its two expected sides
\* contributes no record and raises no error, and the other groups yield
\* what they yield without it: the outcome is the outcome on the snapshot
\* with the incomplete groups removed, and with every complete group well
\* formed nothing is raised.
C6_IncompleteGroupSkipped ==
    /\ appOut # None =>
          /\ NoneFromIncomplete(snapshot, appOut.records)
          /\ appOut \in compute_edges(load_board(CompleteRows(snapshot)))
          /\ AllCompleteAccepted(snapshot) => appOut.status = "ok"
    /\ scanOut # None =>
          /\ NoneFromIncomplete(snapshot, scanOut.all_bets)
          /\ NoneFromIncomplete(snapshot, scanOut.suggestions)
          /\ scanOut = Scan_main(CompleteRows(snapshot))
          /\ AllCompleteAccepted(snapshot) => scanOut.status = "ok"

\* a snapshot with a group that has only one of its sides and a complete
\* group: both readers returned the two records of the complete group
C6_Witness ==
    /\ \E k \in Keys(snapshot) : ~Complete(snapshot, k)
    /\ \E k \in Keys(snapshot) : Accepted(snapshot, k)
    /\ appOut # None /\ appOut.status = "ok" /\ Len(appOut.records) = 2
    /\ scanOut # None /\ scanOut.status = "ok" /\ Len(scanOut.all_bets) = 2

\* position of a record in the order the loop produces records
KeyIndex(g, m) == (IndexOf(Games, g) - 1) * Len(MARKETS) + IndexOf(MARKETS, m)
ProdIndex(r) ==
    2 * KeyIndex(r.game_id, r.market) + (IF r.side \in {"home", "over"} THEN 0 ELSE 1)

\* recs is ordered by edge, non-increasing, ties in production order
RankedStable(recs) ==
    \A i, j \in DOMAIN recs :
        i < j => \/ RatLt(recs[j].edge, recs[i].edge)
                 \/ /\ recs[j].edge = recs[i].edge
                    /\ ProdIndex(recs[i]) < ProdIndex(recs[j])

\* C7: the ranked output is ordered by edge non-increasing and records of
\* equal edge keep the order they were produced in, for compute_edges and
\* for the two sorted lists of edges_scan.
C7_RankedTiesInProductionOrder ==
    /\ appOut # None => RankedStable(appOut.records)
    /\ scanOut # None =>
          RankedStable(scanOut.suggestions) /\ RankedStable(scanOut.all_bets)

\* group k has both sides and implied probabilities that sum to <= 0
Degenerate(rows, k) ==
    /\ Complete(rows, k)
    /\ \A i \in 1 .. 2 : PairOf(rows, k)[i].implied_prob # None
    /\ RatLe(RatAdd(PairOf(rows, k)[1].implied_prob,
                    PairOf(rows, k)[2].implied_prob), Zero)

NonDegenerateRows(rows) == {r \in rows : ~Degenerate(rows, <<r.game_id, r.market>>)}

Malformed(rows) ==
    \E r \in rows : Complete(rows, <<r.game_id, r.market>>) /\ ~WellFormed(r)

\* C10: a row with price 0 or a missing price does not crash the
\* computation: compute_edges and the edges_scan loop finish without
\* raising and still return the records of the well-formed groups.
C10_MalformedPriceSurvived ==
    /\ (appOut # None /\ Malformed(snapshot)) =>
          /\ appOut.status = "ok"
          /\ \A k \in Keys(snapshot) :
                Accepted(snapshot, k) => FairOfPair(snapshot, appOut.records, k)
    /\ (scanOut # None /\ Malformed(snapshot)) =>
          /\ scanOut.status = "ok"
          /\ \A k \in Keys(snapshot) :
                Accepted(snapshot, k) => FairOfPair(snapshot, scanOut.all_bets, k)

-----------------------------------------------------------------------------
(* The bets table: log_bet.py inserts a bet, enter_result.py grades one.   *)
(* A row keeps the columns grading reads or writes; stake_usd is a float,  *)
(* here an exact rational.                                                 *)

EngineIdle ==
    /\ price = 0 /\ conv = ConvIdle
    /\ kellyArg = None /\ kellyRet = None
    /\ snapshot = {} /\ appOut = None /\ scanOut = None

MaxBets == 2    \* bets logged

BetPrices == {-110, 120, 0}
BetStakes == {Zero, FromInt(3), Rat(3337, 1000)}
Results == {"win", "loss", "push", "void"}
ResultInputs == Results \cup {"won"}    \* what the user may type

\* enter_result.py payout_american, returning the gross payout
payout_american_gross(stake, price_american) ==
    IF price_american > 0
    THEN RatAdd(stake, RatMul(stake, Rat(price_american, 100)))
    ELSE IF price_american = 0 THEN Raised("ZeroDivisionError")
    ELSE RatAdd(stake, RatMul(stake, Rat(100, Abs(price_american))))

\* enter_result.py payout_american
payout_american(stake, price_american) ==
    IF price_american > 0
    THEN RatMul(stake, Rat(price_american, 100))
    ELSE IF price_american = 0 THEN Raised("ZeroDivisionError")
    ELSE RatMul(stake, Rat(100, Abs(price_american)))

\* enter_result.py list_pending
list_pending(tbl) == {i \in DOMAIN tbl : tbl[i].result = "pending"}

\* enter_result.py main: the pnl of bet under result res
Grade_pnl(bet, res) ==
    IF res = "win" THEN payout_american(bet.stake_usd, bet.price_american)
    ELSE IF res = "loss" THEN RatSub(Zero, bet.stake_usd)
    ELSE Zero

GradeResult(st) == [status |-> st]

InitBets ==
    /\ bets = <<>> /\ gradeOut = None
    /\ EngineIdle /\ QuotaIdle /\ AlertIdle

\* log_bet.py main, with a game chosen and valid answers (any other answer
\* returns before the INSERT)
LogBet ==
    /\ Len(bets) < MaxBets
    /\ \E pr \in BetPrices, st \in BetStakes :
          bets' = Append(bets, [price_american |-> pr, stake_usd |-> st,
                                result |-> "pending", pnl_usd |-> None])
    /\ UNCHANGED <<gradeOut, engineVars, quotaVars, alertVars>>

\* enter_result.py main
EnterResult ==
    /\ \E bet_id \in 1 .. (MaxBets + 1), res \in ResultInputs :
          IF list_pending(bets) = {}
          THEN gradeOut' = GradeResult("no_pending") /\ UNCHANGED bets
          ELSE IF bet_id \notin DOMAIN bets
          THEN gradeOut' = GradeResult("not_found") /\ UNCHANGED bets
          ELSE IF res \notin Results
          THEN gradeOut' = GradeResult("bad_result") /\ UNCHANGED bets
          ELSE \E pnl \in {Grade_pnl(bets[bet_id], res)} :
                  IF IsRaised(pnl)
                  THEN gradeOut' = GradeResult(pnl.raised) /\ UNCHANGED bets
                  ELSE /\ bets' = [bets EXCEPT ![bet_id] =
                                       [@ EXCEPT !.result = res,
                                                 !.pnl_usd = Round(pnl, 2)]]
                       /\ gradeOut' = GradeResult("updated")
    /\ UNCHANGED <<engineVars, quotaVars, alertVars>>

NextBets == LogBet \/ EnterResult

SpecBets == InitBets /\ [][NextBets]_vars

-----------------------------------------------------------------------------
(* Properties of grading *)

\* the profit and loss the grading rule gives a bet under its result
ExpectedPnl(bet) ==
    IF bet.result = "win"
    THEN IF bet.price_american > 0
         THEN RatMul(bet.stake_usd, Rat(bet.price_american, 100))
         ELSE RatMul(bet.stake_usd, Rat(100, Abs(bet.price_american)))
    ELSE IF bet.result = "loss" THEN RatSub(Zero, bet.stake_usd)
    ELSE Zero

Graded(bet) == bet.result \in Results

\* C11 (as stated): a graded bet stores pnl = stake*price/100 for a win at
\* a positive price, stake*100/|price| for a win at a negative price,
\* -stake for a loss and 0 for push or void.
C11_PnlIsExactPayout ==
    \A i \in DOMAIN bets :
        (Graded(bets[i]) /\ bets[i].price_american # 0) =>
            bets[i].pnl_usd = ExpectedPnl(bets[i])

\* C11 (amended): a graded bet stores that amount rounded to two decimals,
\* round(pnl, 2); a bet not yet graded stores no pnl.
C11_PnlIsRoundedPayout ==
    \A i \in DOMAIN bets :
        /\ (Graded(bets[i]) /\ bets[i].price_american # 0) =>
              bets[i].pnl_usd = Round(ExpectedPnl(bets[i]), 2)
        /\ ~Graded(bets[i]) => bets[i].pnl_usd = None

\* C11 witness: +120 with a $3 stake graded win at 3.60, and a -110 win
\* whose payout 2.7272.. is stored as 2.73
C11_Witness ==
    /\ \E i \in DOMAIN bets :
          /\ bets[i].price_american = 120 /\ bets[i].stake_usd = FromInt(3)
          /\ bets[i].result = "win" /\ bets[i].pnl_usd = Rat(18, 5)
    /\ \E i \in DOMAIN bets :
          /\ bets[i].price_american = -110 /\ bets[i].stake_usd = FromInt(3)
          /\ bets[i].result = "win" /\ bets[i].pnl_usd = Rat(273, 100)

\* C18: log_bet inserts a bet as 'pending'; enter_result changes result and
\* pnl_usd only of a pending bet, so a graded bet keeps both for ever; an
\* unknown bet_id or a result outside {win, loss, push, void} changes nothing.
C18_GradedBetIsFinal ==
    [][/\ \A i \in DOMAIN bets :
              Graded(bets[i]) =>
                  /\ bets'[i].result = bets[i].result
                  /\ bets'[i].pnl_usd = bets[i].pnl_usd
       /\ Len(bets') > Len(bets) => bets'[Len(bets')].result = "pending"
       /\ (/\ Len(bets') = Len(bets)
           /\ gradeOut' \in {GradeResult("not_found"), GradeResult("bad_result")})
              => bets' = bets]_vars

-----------------------------------------------------------------------------
(* The request quota: sequential odds_pull.py runs within one month.  A    *)
(* run ends at the cap check, at a failed fetch, or after saving.          *)

MONTHLY_CAP == 480

FetchOutcomes == {"ok", "HTTPError", "Exception"}

\* what a fetch may return: no event, or one game with its totals priced
PullFeeds ==
    {[k \in {} |-> {}],
     [k \in {<<"g1", "totals">>} |->
         {[name |-> "Over", price |-> IntVal(-110)],
          [name |-> "Under", price |-> IntVal(-110)]}],
     [k \in {<<"g1", "totals">>} |->
         {[name |-> "Over", price |-> IntVal(150)],
          [name |-> "Under", price |-> IntVal(-110)]}]}

\* odds_pull.py main: the cap check, letting the cap itself through
CapReached_off_by_one(used) == used > MONTHLY_CAP

\* odds_pull.py main: the cap check
CapReached(used) == used >= MONTHLY_CAP

\* odds_pull.py add_used
add_used(used, n) == used + n

PullResult(st, used) == [status |-> st, used |-> used]

InitPull ==
    /\ requests_used = 0 /\ pullOut = None
    /\ EngineIdle /\ AlertIdle /\ BetsIdle

\* odds_pull.py main: one run
OddsPull ==
    /\ \E used \in {requests_used}, out \in FetchOutcomes, feed \in PullFeeds :
          IF CapReached(used)
          THEN /\ pullOut' = PullResult("safe_stop", used)
               /\ UNCHANGED <<requests_used, snapshot>>
          ELSE IF out # "ok"
          THEN /\ pullOut' = PullResult(out, used)
               /\ UNCHANGED <<requests_used, snapshot>>
          ELSE /\ requests_used' = add_used(used, 1)
               /\ snapshot' = IF save_snap(feed) = {} THEN snapshot
                              ELSE save_snap(feed)
               /\ pullOut' = PullResult("saved", used)
    /\ UNCHANGED <<price, conv, kellyArg, kellyRet, appOut, scanOut,
                   alertVars, betVars>>

NextPull == OddsPull

SpecPull == InitPull /\ [][NextPull]_vars

-----------------------------------------------------------------------------
(* Properties of the request quota *)

Fetched(out) == out.status \in {"saved", "HTTPError", "Exception"}

\* C17: a fetch is issued only when requests_used < MONTHLY_CAP; the
\* counter rises by exactly 1 on a successful fetch and is unchanged by a
\* failed one (and by a run stopped at the cap), so it never exceeds the cap.
C17_QuotaNeverExceeded ==
    /\ requests_used <= MONTHLY_CAP
    /\ pullOut # None =>
          /\ Fetched(pullOut) => pullOut.used < MONTHLY_CAP
          /\ pullOut.status = "saved" => requests_used = pullOut.used + 1
          /\ pullOut.status # "saved" => requests_used = pullOut.used
          /\ pullOut.status = "safe_stop" => pullOut.used >= MONTHLY_CAP

\* C17 witness: the cap was reached by counted fetches and a run stopped at it
C17_Witness ==
    /\ requests_used = MONTHLY_CAP
    /\ pullOut = PullResult("safe_stop", MONTHLY_CAP)
    /\ snapshot # {}

-----------------------------------------------------------------------------
(* The duplicate-alert guard of edges_scan.py.  Snapshot timestamps are    *)
(* 1, 2, ... in the order of the clock that stamps them; the scan of a     *)
(* snapshot is summed up by whether it has a suggestion.  A run reads the  *)
(* latest timestamp, loads the state file, sends, and writes the state     *)
(* file, in four steps between which other programs may run.               *)

MaxTs == 3        \* snapshot timestamps
MaxAlerts == 3    \* full alerts sent for one timestamp

Timestamps == 1 .. MaxTs

ScannerIdle == [pc |-> "idle", ts |-> 0, state |-> 0]

\* edges_scan.py main: the duplicate-alert guard
AlreadyAlerted(state, ts) == state = ts

\* edges_scan.py main: the state to save, with last_ts left as loaded
Alerted_state_stale(state, ts) == state

\* edges_scan.py main: state["last_ts"] = ts
Alerted_state(state, ts) == ts

InitAlert(procs) ==
    /\ latestTs = 0 /\ hasSugg = FALSE /\ stateFile = 0
    /\ sent = [t \in Timestamps |-> 0]
    /\ scanner = [p \in procs |-> ScannerIdle]
    /\ EngineIdle /\ QuotaIdle /\ BetsIdle

\* odds_pull.py save_snap: rows stamped with the current second become the
\* latest snapshot
NewSnapshot ==
    /\ \E t \in Timestamps, sg \in BOOLEAN :
          /\ t \in {latestTs, latestTs + 1}
          /\ latestTs' = t /\ hasSugg' = sg
    /\ UNCHANGED <<stateFile, sent, scanner, engineVars, quotaVars, betVars>>

\* edges_scan.py main up to the guard: latest timestamp, scan, preview
ScanStart(p) ==
    /\ scanner[p].pc = "idle"
    /\ IF latestTs = 0 \/ ~hasSugg
       THEN UNCHANGED scanner
       ELSE scanner' = [scanner EXCEPT ![p] =
                           [pc |-> "guard", ts |-> latestTs, state |-> 0]]
    /\ UNCHANGED <<latestTs, hasSugg, stateFile, sent,
                   engineVars, quotaVars, betVars>>

\* edges_scan.py main: state = load_state(); the guard
ScanLoadState(p) ==
    /\ scanner[p].pc = "guard"
    /\ IF AlreadyAlerted(stateFile, scanner[p].ts)
       THEN scanner' = [scanner EXCEPT ![p] = ScannerIdle]
       ELSE scanner' = [scanner EXCEPT ![p].pc = "send", ![p].state = stateFile]
    /\ UNCHANGED <<latestTs, hasSugg, stateFile, sent,
                   engineVars, quotaVars, betVars>>

\* edges_scan.py main: compose and send the full alert
ScanSend(p) ==
    /\ scanner[p].pc = "send"
    /\ sent[scanner[p].ts] < MaxAlerts
    /\ sent' = [sent EXCEPT ![scanner[p].ts] = @ + 1]
    /\ scanner' = [scanner EXCEPT ![p].pc = "save"]
    /\ UNCHANGED <<latestTs, hasSugg, stateFile, engineVars, quotaVars, betVars>>

\* edges_scan.py main: state["last_ts"] = ts; save_state(state)
ScanSaveState(p) ==
    /\ scanner[p].pc = "save"
    /\ stateFile' = Alerted_state(scanner[p].state, scanner[p].ts)
    /\ scanner' = [scanner EXCEPT ![p] = ScannerIdle]
    /\ UNCHANGED <<latestTs, hasSugg, sent, engineVars, quotaVars, betVars>>

ScanStep(p) ==
    ScanStart(p) \/ ScanLoadState(p) \/ ScanSend(p) \/ ScanSaveState(p)

\* runs one after the other: one scanner at a time
SeqScanners == {1}

InitAlertSeq == InitAlert(SeqScanners)

NextAlertSeq == NewSnapshot \/ \E p \in SeqScanners : ScanStep(p)

SpecAlertSeq == InitAlertSeq /\ [][NextAlertSeq]_vars

\* two runs at once (two cron entries, or a manual run during a scheduled one)
Scanners == {1, 2}

InitAlertPar == InitAlert(Scanners)

NextAlertPar == NewSnapshot \/ \E p \in Scanners : ScanStep(p)

SpecAlertPar == InitAlertPar /\ [][NextAlertPar]_vars

-----------------------------------------------------------------------------
(* Properties of the duplicate-alert guard *)

AtMostOnce == \A t \in Timestamps : sent[t] <= 1

\* C12: over sequential runs the full alert for a snapshot timestamp is
\* sent at most once; a run whose timestamp equals the stored last_ts sends
\* nothing and leaves the state file unchanged; a run that sends sets
\* last_ts to its timestamp.
C12_AlertAtMostOncePerSnapshot ==
    /\ [](AtMostOnce)
    /\ [][\A p \in DOMAIN scanner :
            /\ (scanner[p].pc = "guard" /\ stateFile = scanner[p].ts
                    /\ scanner'[p] # scanner[p])
                  => /\ scanner'[p].pc = "idle"
                     /\ sent' = sent /\ stateFile' = stateFile
            /\ (scanner[p].pc = "send" /\ scanner'[p] # scanner[p])
                  => /\ scanner'[p].pc = "save"
                     /\ sent'[scanner[p].ts] = sent[scanner[p].ts] + 1
            /\ (scanner[p].pc = "save" /\ scanner'[p] # scanner[p])
                  => stateFile' = scanner[p].ts]_vars

\* C12 witness: a snapshot was alerted once, recorded in the state file, and
\* a later run on the same snapshot stopped at the guard
C12_Witness ==
    /\ latestTs = 2 /\ hasSugg
    /\ sent[1] = 1 /\ sent[2] = 1 /\ stateFile = 2
    /\ \A p \in DOMAIN scanner : scanner[p].pc = "idle"

\* C13: when two runs interleave on the same latest snapshot, at most one of
\* them sends the alert: no interleaving alerts a snapshot twice.
C13_NoDoubleAlertWhenInterleaved ==
    \A t \in Timestamps : sent[t] < 2

-----------------------------------------------------------------------------
(* Properties of the stored sides *)

\* C14: every row save_snap stores for an h2h or spreads market has side
\* 'home' or 'away', and every row of a totals market 'over' or 'under', so
\* a market the bookmaker prices on both sides is a group the edge
\* computation does not skip.
C14_SidesAreMarketEnums ==
    /\ \A r \in snapshot :
          r.side \in {ExpectedSides(r.market)[1], ExpectedSides(r.market)[2]}
    /\ \A k \in Keys(snapshot) :
          Cardinality(Group(snapshot, k)) = 2 => Complete(load_board(snapshot), k)

-----------------------------------------------------------------------------
(* Dashboard against scanner *)

Pick(r) ==
    [game_id |-> r.game_id, market |-> r.market, side |-> r.side,
     fair |-> r.fair, edge |-> r.edge, stake |-> r.stake]

\* app.py Edges tab: e_hit = e[e["edge"] >= edge_thr]
DashboardPicks(out, edge_thr) ==
    {Pick(out.records[i]) :
        i \in {j \in DOMAIN out.records : RatLe(edge_thr, out.records[j].edge)}}

\* edges_scan.py: the suggestions
ScannerPicks(out) == {Pick(out.suggestions[i]) : i \in DOMAIN out.suggestions}

\* C15: on the same snapshot rows and the same threshold the dashboard
\* (compute_edges, then edge >= threshold) and the scanner (suggestions)
\* select the same (game, market, side) picks with the same fair, edge and
\* stake.
C15_DashboardAndScannerAgree ==
    (appOut # None /\ scanOut # None) =>
        DashboardPicks(appOut, EDGE_THRESHOLD) = ScannerPicks(scanOut)

-----------------------------------------------------------------------------
(* Vig and the sign of the edge *)

\* the probability the price of row r implies (a price 0 implies 0)
DerivedOf(r) ==
    IF r.price_american.v > 0
    THEN Rat(100, r.price_american.v + 100)
    ELSE Rat(-r.price_american.v, 100 - r.price_american.v)

\* group k has both sides, priced, with implied probabilities derived from
\* the prices and of positive sum
DerivedPair(rows, k) ==
    /\ Complete(rows, k)
    /\ \A i \in 1 .. 2 :
          /\ PairOf(rows, k)[i].price_american # None
          /\ ImpliedOf(PairOf(rows, k)[i]) = DerivedOf(PairOf(rows, k)[i])
    /\ RatLt(Zero, RatAdd(DerivedOf(PairOf(rows, k)[1]), DerivedOf(PairOf(rows, k)[2])))

ImpliedSum(rows, k) ==
    RatAdd(ImpliedOf(PairOf(rows, k)[1]), ImpliedOf(PairOf(rows, k)[2]))

Sign(x) == IF RatLt(x, Zero) THEN -1 ELSE IF RatLt(Zero, x) THEN 1 ELSE 0

\* the records recs holds for pair k: with vig both edges are negative (and
\* both stakes 0 where a stake is kept); the edges agree in sign, a zero
\* edge (a side priced 0) disagreeing with none; an edge at or over the
\* threshold only when the implied probabilities sum to less than 1
VigKeepsEdgesNegative(rows, recs, k, staked) ==
    \A r1 \in RecsOf(recs, k, ExpectedSides(k[2])[1]) \cup RecsOf(recs, k, ExpectedSides(k[2])[2]) :
        /\ RatLt(One, ImpliedSum(rows, k)) =>
              /\ RatLt(r1.edge, Zero)
              /\ staked => r1.stake = Zero
        /\ RatLe(EDGE_THRESHOLD, r1.edge) => RatLt(ImpliedSum(rows, k), One)
        /\ \A r2 \in RecsOf(recs, k, ExpectedSides(k[2])[1]) \cup RecsOf(recs, k, ExpectedSides(k[2])[2]) :
              /\ Sign(r1.edge) * Sign(r2.edge) >= 0
              /\ (\A i \in 1 .. 2 : WellFormed(PairOf(rows, k)[i]))
                    => Sign(r1.edge) = Sign(r2.edge)

====
